---- MODULE Spec2Model ----
(***************************************************************************)
(* A model of the hogql client (src/src/index.test.ts, lines 227-402: the  *)
(* library) and of its command-line program (src/src/bin/hogql.ts).        *)
(*                                                                         *)
(* One hogql call is a process that runs between its suspension points:    *)
(*   idle -> awaitFetch -> awaitJson -> returned | thrown | sleeping       *)
(*   sleeping -> awaitFetch           (the recursive call after the sleep) *)
(* Strings are TLA+ strings; the URL, the Authorization header and the     *)
(* JSON body are built by concatenation as the template literals and       *)
(* JSON.stringify build them, and the delay is parsed out of the detail    *)
(* text character by character as the regular expression does.             *)
(***************************************************************************)
EXTENDS Integers, Sequences, FiniteSets, TLC

VARIABLES
    args,       \* args[c]: the query and options the caller passed to hogql
    frame,      \* frame[c]: the query and options of the innermost (recursive) invocation
    pc,         \* pc[c]: where call c is suspended
    requests,   \* requests[c]: the requests call c handed to its transport, in order
    responses,  \* responses[c]: the responses the transport resolved for call c, in order
    response,   \* response[c]: the response the innermost invocation of call c holds
    timer,      \* timer[c]: the pending setTimeout of call c: its delay and the ms left
    handledAt,  \* handledAt[c]: the clock when call c last handled a response body
    issuedAt,   \* issuedAt[c]: the clock when call c last issued a request
    outcome,    \* outcome[c]: what the promise of call c settled with
    now,        \* Date.now(), in ms
    server,     \* the server's policy: "any" answer, or "throttling" every attempt
    cli         \* the command-line program: its position, inputs and outputs

vars == <<args, frame, pc, requests, responses, response, timer, handledAt, issuedAt,
          outcome, now, server, cli>>

-----------------------------------------------------------------------------
(* Bounds of the model *)

\* The server throttles one call at most this many times (Respond).
MaxThrottles == 2
\* The clock advances in steps of TickMs, MaxTicks times at most (Tick).
TickMs == 500
MaxTicks == 3
MaxNow == MaxTicks * TickMs
\* The request log of a call keeps its first LogCap requests.
LogCap == MaxThrottles + 1

Calls == {1, 2}

-----------------------------------------------------------------------------
(* JavaScript values *)

\* A number, NaN or undefined, as the arithmetic of lines 386 and 395 sees them.
Number(n) == [t |-> "number", v |-> n]
NaN == [t |-> "NaN", v |-> 0]
Undefined == [t |-> "undefined", v |-> 0]

\* x * k, where undefined * k and NaN * k are NaN.
Times(x, k) == IF x.t = "number" THEN Number(x.v * k) ELSE NaN
\* n + x for a number n.
Plus(n, x) == IF x.t = "number" THEN Number(n + x.v) ELSE NaN

\* new Date(x): a time value, or an Invalid Date when x is NaN.
NewDate(x) == IF x.t = "number" THEN [t |-> "date", v |-> x.v] ELSE [t |-> "InvalidDate", v |-> 0]

\* a || b on option strings: "" and undefined are falsy.
Falsy(s) == s \in {"undefined", ""}
OrElse(a, b) == IF Falsy(a) THEN b ELSE a

\* The truthiness of retryOnRateLimit (undefined | false | true).
Truthy(b) == b = "true"

\* A HogQLScalar: string | number | null.
Num(n) == [t |-> "number", n |-> n, s |-> ""]
Str(s) == [t |-> "string", n |-> 0, s |-> s]
Null == [t |-> "null", n |-> 0, s |-> ""]

-----------------------------------------------------------------------------
(* parseDelayFromThrottledErrorDetail *)

Prefix == "Expected available in "
Suffix == " seconds."

IsDigit(ch) == ch \in {"0", "1", "2", "3", "4", "5", "6", "7", "8", "9"}

DigitVal(ch) ==
    CASE ch = "0" -> 0 [] ch = "1" -> 1 [] ch = "2" -> 2 [] ch = "3" -> 3
      [] ch = "4" -> 4 [] ch = "5" -> 5 [] ch = "6" -> 6 [] ch = "7" -> 7
      [] ch = "8" -> 8 [] ch = "9" -> 9

CharAt(s, i) == SubSeq(s, i, i)

\* parseInt(s, 10) of a non-empty string of digits.
RECURSIVE ParseInt(_)
ParseInt(s) ==
    IF Len(s) = 0 THEN 0
    ELSE ParseInt(SubSeq(s, 1, Len(s) - 1)) * 10 + DigitVal(CharAt(s, Len(s)))

\* The position of the last digit of the longest run of digits starting at j
\* (j - 1 when s has no digit at j): \d+ is greedy.
RECURSIVE DigitsEnd(_, _)
DigitsEnd(s, j) ==
    IF j <= Len(s) /\ IsDigit(CharAt(s, j)) THEN DigitsEnd(s, j + 1) ELSE j - 1

\* s has t at position i.
HasAt(s, i, t) == i + Len(t) - 1 <= Len(s) /\ SubSeq(s, i, i + Len(t) - 1) = t

\* /Expected available in (\d+) seconds\./ matches s at position i. The
\* character after the digits must be the space of " seconds.", so only the
\* longest run of digits can match.
MatchesAt(s, i) ==
    /\ HasAt(s, i, Prefix)
    /\ DigitsEnd(s, i + Len(Prefix)) >= i + Len(Prefix)
    /\ HasAt(s, DigitsEnd(s, i + Len(Prefix)) + 1, Suffix)

\* The start of the leftmost match at or after position i, 0 when there is none.
RECURSIVE FindMatch(_, _)
FindMatch(s, i) ==
    IF i > Len(s) THEN 0
    ELSE IF MatchesAt(s, i) THEN i
    ELSE FindMatch(s, i + 1)

\* Group 1 of the match that starts at i: the digits.
Group1(s, i) == SubSeq(s, i + Len(Prefix), DigitsEnd(s, i + Len(Prefix)))

\* detail.match(...) and what the function returns: the leftmost match, and
\* parseInt of its group 1; with no match the function falls off its end
\* and returns undefined.
MatchAndParse(detail) ==
    IF FindMatch(detail, 1) # 0
    THEN Number(ParseInt(Group1(detail, FindMatch(detail, 1))))
    ELSE Undefined

\* The detail texts the servers of this model send.
Details ==
    { "", "A server error occurred.", "Request was throttled.",
      "Expected available in 1 second.",
      "Expected available in 0 seconds.", "Expected available in 1 seconds.",
      "Expected available in 12 seconds." }

\* MatchAndParse, computed once for each of these texts.
DelayOfDetail == [d \in Details |-> MatchAndParse(d)]

parseDelayFromThrottledErrorDetail(detail) == DelayOfDetail[detail]

MsPerSecond == 1000

-----------------------------------------------------------------------------
(* The request hogql builds *)

DEFAULT_BASE_URL == "https://app.posthog.com"

\* `${baseUrl}/api/projects/${projectId}/query`
Url(baseUrl, projectId) == baseUrl \o "/api/projects/" \o projectId \o "/query"

\* JSON.stringify({query: {kind: 'HogQLQuery', query}}), for a query that
\* needs no escaping.
JSONStringifyBody(query) ==
    "{\"query\":{\"kind\":\"HogQLQuery\",\"query\":\"" \o query \o "\"}}"

\* providedFetch || fetch
FetchFn(providedFetch) == OrElse(providedFetch, "globalFetch")

\* Lines 356-373: the request an invocation with this query and these options
\* hands to its transport.
BuildRequest(query, o) ==
    LET baseUrl == OrElse(o.baseUrl, DEFAULT_BASE_URL)
    IN  [ url     |-> Url(baseUrl, o.projectId),
          method  |-> "POST",
          headers |-> [ ContentType   |-> "application/json",
                        Authorization |-> "Bearer " \o o.apiKey ],
          body    |-> JSONStringifyBody(query),
          via     |-> FetchFn(o.fetch) ]

\* A variant of RetryOptions that passes no baseUrl on.
RetryOptionsUnresolved(o) ==
    [ apiKey           |-> o.apiKey,
      baseUrl          |-> "undefined",
      fetch            |-> o.fetch,
      projectId        |-> o.projectId,
      retryOnRateLimit |-> o.retryOnRateLimit ]

\* A variant of RetryOptions that passes no retryOnRateLimit on.
RetryOptionsNoFlag(o) ==
    [ apiKey           |-> o.apiKey,
      baseUrl          |-> OrElse(o.baseUrl, DEFAULT_BASE_URL),
      fetch            |-> o.fetch,
      projectId        |-> o.projectId,
      retryOnRateLimit |-> "undefined" ]

\* Lines 387-393: the options of the recursive call: the resolved baseUrl,
\* the provided fetch, and the rest as they came.
RetryOptions(o) ==
    [ apiKey           |-> o.apiKey,
      baseUrl          |-> OrElse(o.baseUrl, DEFAULT_BASE_URL),
      fetch            |-> o.fetch,
      projectId        |-> o.projectId,
      retryOnRateLimit |-> o.retryOnRateLimit ]

-----------------------------------------------------------------------------
(* Responses and outcomes *)

\* A response: its status, `ok` (a 2xx status) and its parsed JSON body. A
\* body carries the fields of both shapes; `ok` selects which the code
\* destructures, and the fields of the other shape are left empty.
Response(status, body) ==
    [ok |-> (status >= 200 /\ status <= 299), status |-> status, body |-> body]

SuccessBody(columns, results) ==
    [columns |-> columns, results |-> results, type |-> "", code |-> "", detail |-> ""]

ErrorBody(type, code, detail) ==
    [columns |-> <<>>, results |-> <<>>, type |-> type, code |-> code, detail |-> detail]

NoResponse == Response(0, ErrorBody("", "", ""))

NoDate == [t |-> "absent", v |-> 0]

Pending ==
    [ kind |-> "pending", columns |-> <<>>, results |-> <<>>, name |-> "",
      message |-> "", code |-> "", detail |-> "", type |-> "",
      rateLimitResetsAt |-> NoDate ]

\* A variant of Result that reads the string "1" as the number 1.
ResultCoerced(columns, results) ==
    [Pending EXCEPT !.kind = "result", !.columns = columns,
                    !.results = [i \in 1..Len(results) |->
                                    [j \in 1..Len(results[i]) |->
                                        IF results[i][j].t = "string" /\ results[i][j].s = "1"
                                        THEN Num(1) ELSE results[i][j]]]]

\* Line 378: return { columns, results }
Result(columns, results) ==
    [Pending EXCEPT !.kind = "result", !.columns = columns, !.results = results]

\* Lines 286-298: new HogQLError({code, detail, type}); super(detail) sets the message.
HogQLError(code, detail, type) ==
    [Pending EXCEPT !.kind = "error", !.name = "HogQLError", !.message = detail,
                    !.code = code, !.detail = detail, !.type = type]

\* Lines 300-318: new RateLimitExceededError({code, detail, rateLimitResetsAt, type})
RateLimitExceededError(code, detail, rateLimitResetsAt, type) ==
    [HogQLError(code, detail, type) EXCEPT !.name = "RateLimitExceededError",
                                           !.rateLimitResetsAt = rateLimitResetsAt]

\* e instanceof HogQLError: the class and its subclass.
InstanceOfHogQLError(e) ==
    e.kind = "error" /\ e.name \in {"HogQLError", "RateLimitExceededError"}

\* A variant of RateLimitResetsAt that adds the seconds as milliseconds.
RateLimitResetsAtNoMs(t, secs) == NewDate(Plus(t, secs))

\* Line 395: new Date(Date.now() + rateLimitResetsInSeconds * 1000)
RateLimitResetsAt(t, secs) == NewDate(Plus(t, Times(secs, MsPerSecond)))

\* A variant of SleepMs that passes the seconds as milliseconds.
SleepMsNoMs(secs) == secs

\* Line 386: the argument of sleep.
SleepMs(secs) == Times(secs, MsPerSecond)

NoTimer == [set |-> FALSE, delay |-> Undefined, left |-> 0]

\* Lines 333-334: setTimeout(resolve, ms). A delay that is not a number is no
\* delay: the timer is due at once.
Sleep(ms) == [set |-> TRUE, delay |-> ms, left |-> IF ms.t = "number" THEN ms.v ELSE 0]

\* A variant of IsThrottled that looks at the code of the body.
IsThrottledByCode(body) == body.code = "throttled"

\* A variant of IsThrottled that also wants a delay it can parse.
IsThrottledWithDelay(body) ==
    body.type = "throttled_error"
    /\ parseDelayFromThrottledErrorDetail(body.detail).t = "number"

\* Line 382
IsThrottled(body) == body.type = "throttled_error"

\* Lines 375-401: what an invocation with options o does with response r at
\* clock t: the position it reaches, what its promise settles with, and
\* the timer it sets.
Settle(r, o, t) ==
    IF r.ok
    THEN [pc |-> "returned", outcome |-> Result(r.body.columns, r.body.results),
          timer |-> NoTimer]
    ELSE IF IsThrottled(r.body)
         THEN LET rateLimitResetsInSeconds ==
                      parseDelayFromThrottledErrorDetail(r.body.detail)
              IN  IF Truthy(o.retryOnRateLimit)
                  THEN [pc |-> "sleeping", outcome |-> Pending,
                        timer |-> Sleep(SleepMs(rateLimitResetsInSeconds))]
                  ELSE [pc |-> "thrown",
                        outcome |-> RateLimitExceededError(
                                        r.body.code, r.body.detail,
                                        RateLimitResetsAt(t, rateLimitResetsInSeconds),
                                        r.body.type),
                        timer |-> NoTimer]
         ELSE [pc |-> "thrown",
               outcome |-> HogQLError(r.body.code, r.body.detail, r.body.type),
               timer |-> NoTimer]

-----------------------------------------------------------------------------
(* Inputs *)

Queries == {"SELECT id, name FROM users", "SELECT 1"}

\* An option that was not supplied is "undefined".
Options ==
    [ apiKey           : {"secret"},
      baseUrl          : {"undefined", "", "https://eu.posthog.com"},
      fetch            : {"undefined", "mockFetch"},
      projectId        : {"123"},
      retryOnRateLimit : {"undefined", "false", "true"} ]

NoArgs ==
    [ query |-> "",
      options |-> [apiKey |-> "", baseUrl |-> "undefined", fetch |-> "undefined",
                   projectId |-> "", retryOnRateLimit |-> "undefined"] ]

SuccessResponses ==
    { Response(200, SuccessBody(<<"id", "name">>,
                                <<<<Num(1), Str("Alice")>>, <<Num(2), Str("Bob")>>>>)),
      Response(201, SuccessBody(<<"name", "id">>, <<<<Str("1"), Null>>>>)) }

GenericErrorResponses ==
    { Response(500, ErrorBody("server_error", "error", "A server error occurred.")),
      Response(400, ErrorBody("validation_error", "throttled",
                              "Expected available in 1 seconds.")) }

ThrottledResponses ==
    { Response(429, ErrorBody("throttled_error", "throttled", d)) :
        d \in { "Expected available in 0 seconds.",
                "Expected available in 1 seconds.",
                "Expected available in 12 seconds.",
                "Expected available in 1 second.",
                "Request was throttled." } }

Responses == SuccessResponses \cup GenericErrorResponses \cup ThrottledResponses

-----------------------------------------------------------------------------
(* The library: one hogql call *)

\* The network log: the first LogCap entries are kept.
Log(log, x) == IF Len(log) < LogCap THEN Append(log, x) ELSE log

Min(a, b) == IF a <= b THEN a ELSE b
Max(a, b) == IF a >= b THEN a ELSE b

\* Lines 346-373: an invocation of hogql(query, o) by call c runs to its
\* first await: it builds the request and hands it to the transport.
Enter(c, query, o) ==
    /\ frame' = [frame EXCEPT ![c] = [query |-> query, options |-> o]]
    /\ requests' = [requests EXCEPT ![c] = Log(@, BuildRequest(query, o))]
    /\ issuedAt' = [issuedAt EXCEPT ![c] = now]
    /\ pc' = [pc EXCEPT ![c] = "awaitFetch"]

\* The caller invokes hogql(query, options).
CallHogql(c) ==
    /\ pc[c] = "idle"
    /\ Enter(c, args[c].query, args[c].options)
    /\ UNCHANGED <<args, responses, response, timer, handledAt, outcome, now, server, cli>>

\* Line 361: the transport resolves the fetch of call c with response r.
Deliver(c, r) ==
    /\ pc[c] = "awaitFetch"
    /\ response' = [response EXCEPT ![c] = r]
    /\ responses' = [responses EXCEPT ![c] = Log(@, r)]
    /\ pc' = [pc EXCEPT ![c] = "awaitJson"]
    /\ UNCHANGED <<args, frame, requests, timer, handledAt, issuedAt, outcome, now,
                   server, cli>>

Throttles(log) == Cardinality({i \in 1..Len(log) : ~log[i].ok /\ IsThrottled(log[i].body)})

\* The server answers an attempt of call c; it throttles a call MaxThrottles
\* times at most.
Respond(c) ==
    \E r \in Responses :
        /\ (~r.ok /\ IsThrottled(r.body)) => Throttles(responses[c]) < MaxThrottles
        /\ Deliver(c, r)

\* An invocation that reads the options of the latest invocation of any call.
HandleResponseShared(c) ==
    /\ pc[c] = "awaitJson"
    /\ LET latest == CHOOSE d \in Calls :
                         /\ pc[d] # "idle"
                         /\ \A e \in Calls : pc[e] # "idle" => issuedAt[e] <= issuedAt[d]
           s == Settle(response[c], frame[latest].options, now)
       IN  /\ pc' = [pc EXCEPT ![c] = s.pc]
           /\ outcome' = [outcome EXCEPT ![c] = s.outcome]
           /\ timer' = [timer EXCEPT ![c] = s.timer]
    /\ handledAt' = [handledAt EXCEPT ![c] = now]
    /\ UNCHANGED <<args, frame, requests, responses, response, issuedAt, now, server, cli>>

\* Lines 375-401: response.json() has resolved; the invocation returns,
\* throws, or sets the timer of its sleep.
HandleResponse(c) ==
    /\ pc[c] = "awaitJson"
    /\ LET s == Settle(response[c], frame[c].options, now)
       IN  /\ pc' = [pc EXCEPT ![c] = s.pc]
           /\ outcome' = [outcome EXCEPT ![c] = s.outcome]
           /\ timer' = [timer EXCEPT ![c] = s.timer]
    /\ handledAt' = [handledAt EXCEPT ![c] = now]
    /\ UNCHANGED <<args, frame, requests, responses, response, issuedAt, now, server, cli>>

\* A variant of TimerFires that retries once and no more.
TimerFiresOnce(c) ==
    /\ pc[c] = "sleeping"
    /\ timer[c].set /\ timer[c].left = 0
    /\ Len(requests[c]) < 2
    /\ timer' = [timer EXCEPT ![c] = NoTimer]
    /\ Enter(c, frame[c].query, RetryOptions(frame[c].options))
    /\ UNCHANGED <<args, responses, response, handledAt, outcome, now, server, cli>>

\* Lines 386-393: the timer of the sleep fires and the invocation calls hogql
\* again, which runs to its fetch.
TimerFires(c) ==
    /\ pc[c] = "sleeping"
    /\ timer[c].set /\ timer[c].left = 0
    /\ timer' = [timer EXCEPT ![c] = NoTimer]
    /\ Enter(c, frame[c].query, RetryOptions(frame[c].options))
    /\ UNCHANGED <<args, responses, response, handledAt, outcome, now, server, cli>>

\* Time passes for every pending timer.
Elapse(d) ==
    timer' = [c \in Calls |->
                 IF timer[c].set THEN [timer[c] EXCEPT !.left = Max(0, @ - d)]
                 ELSE timer[c]]

\* The clock advances by TickMs.
Tick ==
    /\ now + TickMs <= MaxNow
    /\ now' = now + TickMs
    /\ Elapse(TickMs)
    /\ UNCHANGED <<args, frame, pc, requests, responses, response, handledAt, issuedAt,
                   outcome, server, cli>>

-----------------------------------------------------------------------------
(* Specification of one call *)

CliOff ==
    [ pc |-> "off", query |-> "", optsApiKey |-> "undefined",
      optsProjectId |-> "undefined", optsBaseUrl |-> "undefined",
      returnObjects |-> FALSE, envApiKey |-> "undefined",
      envProjectId |-> "undefined", stdout |-> <<>>, stderr |-> <<>>,
      exitCode |-> 0 ]

\* Nothing has run yet: the calls of `idle` are about to be made with `a`.
Start(idle, a) ==
    /\ args = [c \in Calls |-> IF c \in idle THEN a[c] ELSE NoArgs]
    /\ frame = [c \in Calls |-> NoArgs]
    /\ pc = [c \in Calls |-> IF c \in idle THEN "idle" ELSE "unused"]
    /\ requests = [c \in Calls |-> <<>>]
    /\ responses = [c \in Calls |-> <<>>]
    /\ response = [c \in Calls |-> NoResponse]
    /\ timer = [c \in Calls |-> NoTimer]
    /\ handledAt = [c \in Calls |-> 0]
    /\ issuedAt = [c \in Calls |-> 0]
    /\ outcome = [c \in Calls |-> Pending]
    /\ now = 0

Init ==
    /\ \E q \in Queries, o \in Options :
           Start({1}, [c \in Calls |-> [query |-> q, options |-> o]])
    /\ server = "any"
    /\ cli = CliOff

Next ==
    \/ \E c \in Calls : CallHogql(c)
    \/ \E c \in Calls : Respond(c)
    \/ \E c \in Calls : HandleResponse(c)
    \/ \E c \in Calls : TimerFires(c)
    \/ Tick

Spec == Init /\ [][Next]_vars

-----------------------------------------------------------------------------
(* Specification of two concurrent calls *)

ConcResponses ==
    { Response(200, SuccessBody(<<"id", "name">>,
                                <<<<Num(1), Str("Alice")>>, <<Num(2), Str("Bob")>>>>)),
      Response(500, ErrorBody("server_error", "error", "A server error occurred.")),
      Response(429, ErrorBody("throttled_error", "throttled",
                              "Expected available in 1 seconds.")) }

\* The arguments of the two calls: they differ in query, baseUrl and mode.
ConcArgs ==
    { [ query |-> "SELECT id, name FROM users",
        options |-> [apiKey |-> "secret", baseUrl |-> "undefined", fetch |-> "mockFetch",
                     projectId |-> "123", retryOnRateLimit |-> "true"] ],
      [ query |-> "SELECT 1",
        options |-> [apiKey |-> "secret", baseUrl |-> "https://eu.posthog.com",
                     fetch |-> "mockFetch", projectId |-> "123",
                     retryOnRateLimit |-> "false"] ] }

InitConc ==
    /\ \E a \in [Calls -> ConcArgs] : Start(Calls, a)
    /\ server = "any"
    /\ cli = CliOff

\* The server answers an attempt of one of the concurrent calls.
RespondConc(c) ==
    \E r \in ConcResponses :
        /\ (~r.ok /\ IsThrottled(r.body)) => Throttles(responses[c]) < MaxThrottles
        /\ Deliver(c, r)

NextConc ==
    \/ \E c \in Calls : CallHogql(c)
    \/ \E c \in Calls : RespondConc(c)
    \/ \E c \in Calls : HandleResponse(c)
    \/ \E c \in Calls : TimerFires(c)
    \/ Tick

ConcSpec == InitConc /\ [][NextConc]_vars

-----------------------------------------------------------------------------
(* Specification of a retrying call against a server that may throttle forever *)

LiveCalls == {1}

LiveResponses ==
    { Response(200, SuccessBody(<<"id", "name">>,
                                <<<<Num(1), Str("Alice")>>, <<Num(2), Str("Bob")>>>>)),
      Response(500, ErrorBody("server_error", "error", "A server error occurred.")),
      Response(429, ErrorBody("throttled_error", "throttled",
                              "Expected available in 1 seconds.")),
      Response(429, ErrorBody("throttled_error", "throttled",
                              "Expected available in 12 seconds.")),
      Response(429, ErrorBody("throttled_error", "throttled", "Request was throttled.")) }

InitLive ==
    /\ Start(LiveCalls, [c \in Calls |->
                      [ query |-> "SELECT 1",
                        options |-> [apiKey |-> "secret", baseUrl |-> "undefined",
                                     fetch |-> "undefined", projectId |-> "123",
                                     retryOnRateLimit |-> "true"] ]])
    /\ server \in {"any", "throttling"}
    /\ cli = CliOff

\* The server answers an attempt: a throttling server with a throttled
\* response, every time.
RespondLive(c) ==
    \E r \in LiveResponses :
        /\ server = "throttling" => (~r.ok /\ IsThrottled(r.body))
        /\ Deliver(c, r)

\* Time passes without end; the clock is read up to MaxNow (a retrying call
\* never reads it).
TickLive ==
    /\ now' = Min(now + TickMs, MaxNow)
    /\ Elapse(TickMs)
    /\ UNCHANGED <<args, frame, pc, requests, responses, response, handledAt, issuedAt,
                   outcome, server, cli>>

NextLive ==
    \/ \E c \in LiveCalls : CallHogql(c)
    \/ \E c \in LiveCalls : RespondLive(c)
    \/ \E c \in LiveCalls : HandleResponse(c)
    \/ \E c \in LiveCalls : TimerFires(c)
    \/ TickLive

\* The event loop runs every continuation that is ready, the server answers
\* every attempt, and time passes.
Fairness ==
    /\ \A c \in LiveCalls : WF_vars(CallHogql(c))
    /\ \A c \in LiveCalls : WF_vars(RespondLive(c))
    /\ \A c \in LiveCalls : WF_vars(HandleResponse(c))
    /\ \A c \in LiveCalls : WF_vars(TimerFires(c))
    /\ WF_vars(TickLive)

LiveSpec == InitLive /\ [][NextLive]_vars /\ Fairness

-----------------------------------------------------------------------------
(* The command-line program *)

CliCall == 1

MissingApiKey ==
    "A PostHog API key must be provided using the --api-key argument or POSTHOG_API_KEY environment variable"

MissingProjectId ==
    "A PostHog project ID must be provided using the --project-id argument or POSTHOG_PROJECT_ID environment variable"

\* A variant of CliOptions that turns the retry mode on.
CliOptionsRetry(apiKey, baseUrl, projectId) ==
    [ apiKey |-> apiKey, baseUrl |-> baseUrl, fetch |-> "undefined",
      projectId |-> projectId, retryOnRateLimit |-> "true" ]

\* bin/hogql.ts lines 61-65: the options the program passes to hogql.
CliOptions(apiKey, baseUrl, projectId) ==
    [ apiKey |-> apiKey, baseUrl |-> baseUrl, fetch |-> "undefined",
      projectId |-> projectId, retryOnRateLimit |-> "undefined" ]

\* bin/hogql.ts lines 68-76: a row as an object keyed by column name; a later
\* column of the same name overwrites an earlier one.
RowObject(columns, row) ==
    LET keys == {columns[i] : i \in 1..Min(Len(row), Len(columns))}
    IN  [k \in keys |->
            row[CHOOSE i \in 1..Min(Len(row), Len(columns)) :
                    /\ columns[i] = k
                    /\ \A j \in 1..Min(Len(row), Len(columns)) : columns[j] = k => j <= i]]

\* bin/hogql.ts lines 67-81: what the program prints for a result.
Printed(returnObjects, columns, results) ==
    IF returnObjects
    THEN [format |-> "objects", rows |-> <<>>,
          objects |-> [i \in 1..Len(results) |-> RowObject(columns, results[i])]]
    ELSE [format |-> "arrays", rows |-> results, objects |-> <<>>]

\* bin/hogql.ts lines 37-65: the program resolves its inputs, exits with 1
\* when the API key or the project ID is missing, and calls hogql otherwise.
CliMain ==
    /\ cli.pc = "start"
    /\ LET apiKey == OrElse(cli.optsApiKey, cli.envApiKey)
           projectId == OrElse(cli.optsProjectId, cli.envProjectId)
       IN  IF Falsy(apiKey)
           THEN /\ cli' = [cli EXCEPT !.pc = "exited", !.exitCode = 1,
                                      !.stderr = Append(@, MissingApiKey)]
                /\ UNCHANGED <<args, frame, pc, requests, issuedAt>>
           ELSE IF Falsy(projectId)
           THEN /\ cli' = [cli EXCEPT !.pc = "exited", !.exitCode = 1,
                                      !.stderr = Append(@, MissingProjectId)]
                /\ UNCHANGED <<args, frame, pc, requests, issuedAt>>
           ELSE /\ cli' = [cli EXCEPT !.pc = "awaiting"]
                /\ args' = [args EXCEPT ![CliCall] =
                               [ query |-> cli.query,
                                 options |-> CliOptions(apiKey, cli.optsBaseUrl, projectId) ]]
                /\ Enter(CliCall, cli.query, CliOptions(apiKey, cli.optsBaseUrl, projectId))
    /\ UNCHANGED <<responses, response, timer, handledAt, outcome, now, server>>

\* bin/hogql.ts lines 61-90: the promise of hogql settles; the program prints
\* the result, or prints the error and exits with 1.
CliFinish ==
    /\ cli.pc = "awaiting"
    /\ pc[CliCall] \in {"returned", "thrown"}
    /\ LET e == outcome[CliCall]
       IN  IF pc[CliCall] = "returned"
           THEN cli' = [cli EXCEPT !.pc = "exited",
                                   !.stdout = Append(@, Printed(cli.returnObjects,
                                                                e.columns, e.results))]
           ELSE IF InstanceOfHogQLError(e)
           THEN cli' = [cli EXCEPT !.pc = "exited", !.exitCode = 1,
                                   !.stderr = Append(@, "Error executing query: " \o e.detail)]
           ELSE cli' = [cli EXCEPT !.pc = "exited", !.exitCode = 1,
                                   !.stderr = Append(@, "An unexpected error occurred")]
    /\ UNCHANGED <<args, frame, pc, requests, responses, response, timer, handledAt,
                   issuedAt, outcome, now, server>>

\* Line 361: the transport rejects the fetch; nothing in hogql catches it,
\* and the promise of the call rejects with the transport's error.
TransportFails(c) ==
    /\ pc[c] = "awaitFetch"
    /\ pc' = [pc EXCEPT ![c] = "thrown"]
    /\ outcome' = [outcome EXCEPT ![c] =
                      [Pending EXCEPT !.kind = "error", !.name = "TypeError",
                                      !.message = "fetch failed"]]
    /\ UNCHANGED <<args, frame, requests, responses, response, timer, handledAt,
                   issuedAt, now, server, cli>>

InitCli ==
    /\ Start({}, [c \in Calls |-> NoArgs])
    /\ server = "any"
    /\ cli \in [ pc : {"start"},
                 query : {"SELECT id, name FROM users"},
                 optsApiKey : {"undefined", "secret"},
                 optsProjectId : {"undefined", "123"},
                 optsBaseUrl : {"undefined", "https://eu.posthog.com"},
                 returnObjects : BOOLEAN,
                 envApiKey : {"undefined", "", "secret"},
                 envProjectId : {"undefined", "123"},
                 stdout : {<<>>},
                 stderr : {<<>>},
                 exitCode : {0} ]

NextCli ==
    \/ CliMain
    \/ \E c \in Calls : Respond(c)
    \/ \E c \in Calls : TransportFails(c)
    \/ \E c \in Calls : HandleResponse(c)
    \/ Tick
    \/ CliFinish

CliSpec == InitCli /\ [][NextCli]_vars

-----------------------------------------------------------------------------
(* Vocabulary of the properties *)

\* Call c has handled the response it holds.
Handled(c) == pc[c] \in {"returned", "thrown", "sleeping"}

Settled(c) == pc[c] \in {"returned", "thrown"}

RetryOn(c) == args[c].options.retryOnRateLimit = "true"

ThrottledResponse(r) == ~r.ok /\ r.body.type = "throttled_error"

DigitChar(d) ==
    CASE d = 0 -> "0" [] d = 1 -> "1" [] d = 2 -> "2" [] d = 3 -> "3" [] d = 4 -> "4"
      [] d = 5 -> "5" [] d = 6 -> "6" [] d = 7 -> "7" [] d = 8 -> "8" [] d = 9 -> "9"

RECURSIVE Decimal(_)
Decimal(n) == IF n < 10 THEN DigitChar(n) ELSE Decimal(n \div 10) \o DigitChar(n % 10)

\* The detail text of a throttling that resets in n seconds.
DetailOf(n) == "Expected available in " \o Decimal(n) \o " seconds."

Seconds == 0..12

-----------------------------------------------------------------------------
(* C1 *)

\* C1: once a call has handled a 2xx response with columns C and results R,
\* it has returned exactly {columns: C, results: R} (same order, same scalars),
\* it carries no error, and it has issued no request beyond the one that
\* response answered.
C1_ReturnsBodyVerbatim ==
    \A c \in Calls :
        (Handled(c) /\ response[c].ok) =>
            /\ pc[c] = "returned"
            /\ outcome[c].kind = "result"
            /\ outcome[c].columns = response[c].body.columns
            /\ outcome[c].results = response[c].body.results
            /\ outcome[c].name = "" /\ outcome[c].rateLimitResetsAt = NoDate
            /\ Len(requests[c]) = Len(responses[c])

C1_Witness ==
    \E c \in Calls :
        /\ pc[c] = "returned"
        /\ outcome[c].columns = <<"name", "id">>
        /\ outcome[c].results = <<<<Str("1"), Null>>>>
        /\ Len(requests[c]) = 2

-----------------------------------------------------------------------------
(* C2 *)

\* C2: once a call has handled a non-2xx response whose type is not
\* "throttled_error", whatever its retryOnRateLimit, it has thrown a plain
\* HogQLError whose code, detail and type are the body's and whose message is
\* the detail, and the request that response answered is its last.
C2_GenericError ==
    \A c \in Calls :
        (Handled(c) /\ ~response[c].ok /\ response[c].body.type # "throttled_error") =>
            /\ pc[c] = "thrown"
            /\ outcome[c].kind = "error"
            /\ outcome[c].name = "HogQLError"
            /\ outcome[c].code = response[c].body.code
            /\ outcome[c].detail = response[c].body.detail
            /\ outcome[c].type = response[c].body.type
            /\ outcome[c].message = response[c].body.detail
            /\ outcome[c].rateLimitResetsAt = NoDate
            /\ ~timer[c].set
            /\ Len(requests[c]) = Len(responses[c])

C2_Witness ==
    \E c \in Calls :
        /\ RetryOn(c)
        /\ pc[c] = "thrown"
        /\ response[c].body.type = "validation_error"
        /\ outcome[c].code = "throttled"
        /\ Len(requests[c]) = 2

-----------------------------------------------------------------------------
(* C3 *)

\* C3: with retryOnRateLimit unset or false, once a call has handled a
\* throttled response whose detail is "Expected available in N seconds.", it
\* has thrown, after that single request, a RateLimitExceededError with the
\* body's code, detail and type whose rateLimitResetsAt is the clock at the
\* moment of the throw plus N seconds, and stays so while the clock advances.
C3_RateLimitError ==
    \A c \in Calls : \A n \in Seconds :
        ( /\ ~RetryOn(c)
          /\ Handled(c)
          /\ ThrottledResponse(response[c])
          /\ response[c].body.detail = DetailOf(n) ) =>
            /\ pc[c] = "thrown"
            /\ Len(requests[c]) = 1
            /\ outcome[c].kind = "error"
            /\ outcome[c].name = "RateLimitExceededError"
            /\ outcome[c].code = response[c].body.code
            /\ outcome[c].detail = response[c].body.detail
            /\ outcome[c].type = response[c].body.type
            /\ outcome[c].message = response[c].body.detail
            /\ outcome[c].rateLimitResetsAt = [t |-> "date", v |-> handledAt[c] + n * 1000]

C3_Witness ==
    \E c \in Calls :
        /\ args[c].options.retryOnRateLimit = "undefined"
        /\ pc[c] = "thrown"
        /\ response[c].body.detail = "Expected available in 12 seconds."
        /\ handledAt[c] = TickMs
        /\ now > handledAt[c]
        /\ outcome[c].rateLimitResetsAt = [t |-> "date", v |-> TickMs + 12000]

-----------------------------------------------------------------------------
(* C4 *)

-----------------------------------------------------------------------------
(* C5 *)

\* The request the interface documents for these arguments, sent to `base`.
Documented(a, base) ==
    [ url     |-> base \o "/api/projects/" \o a.options.projectId \o "/query",
      method  |-> "POST",
      headers |-> [ ContentType   |-> "application/json",
                    Authorization |-> "Bearer " \o a.options.apiKey ],
      body    |-> "{\"query\":{\"kind\":\"HogQLQuery\",\"query\":\"" \o a.query \o "\"}}",
      via     |-> IF a.options.fetch = "undefined" THEN "globalFetch"
                  ELSE a.options.fetch ]

-----------------------------------------------------------------------------
(* C6 *)

\* C6: a call made with retryOnRateLimit = true never fails with a
\* RateLimitExceededError: if it has thrown, the error is a plain HogQLError
\* taken from a non-2xx response that is not throttled; if it has returned,
\* the last response it received was a 2xx; and it holds an error exactly
\* when it has thrown.
C6_NoRateLimitErrorInRetryMode ==
    \A c \in Calls :
        RetryOn(c) =>
            /\ outcome[c].name # "RateLimitExceededError"
            /\ outcome[c].rateLimitResetsAt = NoDate
            /\ (outcome[c].kind = "error") <=> (pc[c] = "thrown")
            /\ (outcome[c].kind = "result") <=> (pc[c] = "returned")
            /\ pc[c] = "thrown" =>
                   /\ outcome[c].name = "HogQLError"
                   /\ outcome[c].type # "throttled_error"
                   /\ ~response[c].ok
                   /\ outcome[c].type = response[c].body.type
            /\ pc[c] = "returned" => response[c].ok

C6_Witness ==
    \E c \in Calls :
        /\ RetryOn(c)
        /\ pc[c] = "thrown"
        /\ Len(responses[c]) = 3
        /\ ThrottledResponse(responses[c][2])
        /\ outcome[c].name = "HogQLError"

-----------------------------------------------------------------------------
(* C10 *)

\* Detail texts that do not have the form "Expected available in N seconds.".
NoDelayDetails == {"Request was throttled.", "Expected available in 1 second."}

-----------------------------------------------------------------------------
(* C7 *)

\* C7: under LiveSpec, a call made with retryOnRateLimit = true settles only
\* on a response that is not throttled, and does settle once it holds one;
\* each of its sleeps is the delay of the response it just handled, however
\* many came before; and against a server that throttles every attempt it
\* never settles and issues requests again and again.
C7_RetryWithoutCap ==
    /\ [](\A c \in LiveCalls :
              /\ Settled(c) => ~ThrottledResponse(response[c])
              /\ server = "throttling" => ~Settled(c)
              /\ \A n \in Seconds :
                     (pc[c] = "sleeping" /\ response[c].body.detail = DetailOf(n)) =>
                         timer[c].delay = [t |-> "number", v |-> n * 1000])
    /\ \A c \in LiveCalls :
           (pc[c] = "awaitJson" /\ ~ThrottledResponse(response[c])) ~> Settled(c)
    /\ \A c \in LiveCalls : []<>(server = "throttling" => pc[c] = "awaitFetch")

C7_Witness ==
    \E c \in LiveCalls :
        /\ RetryOn(c)
        /\ server = "throttling"
        /\ pc[c] = "awaitFetch"
        /\ Len(responses[c]) = LogCap
        /\ \A i \in 1..LogCap : ThrottledResponse(responses[c][i])
        /\ response[c].body.detail = "Expected available in 12 seconds."
        /\ now = MaxNow

-----------------------------------------------------------------------------
(* C8 *)

\* What call c holds.
Local(c) ==
    <<args[c], frame[c], pc[c], requests[c], responses[c], response[c], handledAt[c],
      issuedAt[c], outcome[c]>>

\* The requests a call at position `at` has made when its responses are log:
\* one per response, and one more while an attempt is unanswered.
OwnRequestCount(log, at) == Len(log) + (IF at = "awaitFetch" THEN 1 ELSE 0)

\* C8: with two calls running concurrently, in every interleaving: a step
\* changes what one call holds at most, and of the other nothing, not even its
\* timer; every request of a call is built from its own arguments, their
\* number follows from its own arguments and its own responses, and its
\* outcome is what its own options make of its own last response at the
\* time it handled it, so that two calls with the same arguments and the same
\* responses, handled at the same time, have the same outcome; and a call
\* that sleeps leaves the other able to start,
\* to handle its response and to retry.
C8_CallsIndependent ==
    /\ [](\A c \in Calls :
              /\ \A i \in 1..Len(requests[c]) :
                     requests[c][i] = BuildRequest(args[c].query, args[c].options)
              /\ Len(requests[c]) = OwnRequestCount(responses[c], pc[c])
              /\ ~RetryOn(c) => Len(requests[c]) <= 1
              /\ \A i \in 1..(Len(responses[c]) - 1) : ThrottledResponse(responses[c][i])
              /\ Settled(c) =>
                     /\ response[c] = responses[c][Len(responses[c])]
                     /\ outcome[c] = Settle(response[c], args[c].options, handledAt[c]).outcome
              /\ ~Settled(c) => outcome[c] = Pending
              /\ \A d \in Calls \ {c} :
                     ( /\ Settled(c) /\ Settled(d)
                       /\ args[c] = args[d]
                       /\ responses[c] = responses[d]
                       /\ handledAt[c] = handledAt[d] ) =>
                         outcome[c] = outcome[d]
              /\ \A d \in Calls \ {c} :
                     pc[c] = "sleeping" =>
                         /\ pc[d] = "idle" => ENABLED CallHogql(d)
                         /\ pc[d] = "awaitFetch" => ENABLED RespondConc(d)
                         /\ pc[d] = "awaitJson" => ENABLED HandleResponse(d)
                         /\ (pc[d] = "sleeping" /\ timer[d].left = 0) => ENABLED TimerFires(d))
    /\ [][\A c \in Calls : \A d \in Calls \ {c} :
              Local(c)' # Local(c) => (Local(d)' = Local(d) /\ timer[d]' = timer[d])]_vars

C8_Witness ==
    /\ pc[1] = "sleeping" /\ timer[1].left > 0
    /\ pc[2] = "thrown" /\ outcome[2].name = "RateLimitExceededError"
    /\ args[1] # args[2]
    /\ issuedAt[2] > handledAt[1]
    /\ Len(requests[1]) = 2

-----------------------------------------------------------------------------
(* C9 *)

CliMissing(flag, env) == flag = "undefined" /\ env = "undefined"

\* C9: a run of the command-line program issues one request at most and never
\* sleeps for a retry; it issues none when the API key or the project ID is
\* missing from both flag and environment; and once the call has failed, on a
\* non-2xx response, throttled or not, or on any other error, the program has
\* printed nothing to standard output, and when it has exited it has written
\* one message to standard error and its exit status is not zero.
C9_CliNeverRetries ==
    /\ Len(requests[CliCall]) <= 1
    /\ pc[CliCall] # "sleeping"
    /\ ~timer[CliCall].set
    /\ ( \/ CliMissing(cli.optsApiKey, cli.envApiKey)
         \/ CliMissing(cli.optsProjectId, cli.envProjectId) ) =>
           /\ Len(requests[CliCall]) = 0
           /\ cli.stdout = <<>>
           /\ cli.pc = "exited" => (cli.exitCode # 0 /\ Len(cli.stderr) = 1)
    /\ (Handled(CliCall) /\ ~response[CliCall].ok) => pc[CliCall] = "thrown"
    /\ pc[CliCall] = "thrown" =>
           /\ cli.stdout = <<>>
           /\ cli.pc = "exited" => (cli.exitCode # 0 /\ Len(cli.stderr) = 1)
    /\ (cli.pc = "exited" /\ cli.exitCode = 0) =>
           (pc[CliCall] = "returned" /\ Len(cli.stdout) = 1 /\ cli.stderr = <<>>)

C9_Witness ==
    /\ cli.pc = "exited"
    /\ ThrottledResponse(response[CliCall])
    /\ cli.exitCode = 1
    /\ cli.stderr = <<"Error executing query: Expected available in 1 seconds.">>
    /\ cli.stdout = <<>>
    /\ Len(requests[CliCall]) = 1
    /\ now = MaxNow

====
